---- MODULE Spec2Model ----
(***************************************************************************)
(* Model of the agent execution core (src/src/agents/base.ts) and of the   *)
(* schema helpers (src/src/internals/helpers/schema.ts).                   *)
(*                                                                         *)
(* Spec          run() and the callback it hands to RunContext.enter      *)
(* AbortSpec     ... with the caller aborting the signal                  *)
(* SnapshotSpec  ... with createSnapshot() and loadSnapshot()             *)
(* PipelineSpec  ... with further middleware stages                       *)
(* SchemaSpec    toJsonSchema applied to bounded schema trees             *)
(***************************************************************************)
EXTENDS Integers, Sequences, FiniteSets, TLC

\* Bounds of the model.
MaxRuns == 2
MaxExtra == 1
MaxDepth == 2
MaxLen == 5

\* The agent instances, and the class of each (this.constructor.name).
Agents == {"a1", "a2"}

ClassName(a) == IF a = "a1" THEN "AgentA" ELSE "AgentB"

\* The caller of a top-level run(): no run's _run, but outside code.
TopLevel == 0

VARIABLES
    INSTRUMENTATION_ENABLED,  \* the process-wide instrumentation setting
    isRunning,                \* isRunning[a]: the agent's reentrancy flag
    runs,                     \* one record per accepted run(), in call order
    topRejected,              \* agents for which a top-level run() threw
    snapshots,                \* the values createSnapshot() has returned
    schema,                   \* SchemaSpec: the input of toJsonSchema
    out,                      \* SchemaSpec: toJsonSchema(schema)
    out2,                     \* SchemaSpec: toJsonSchema(out)
    input,                    \* ParseSpec: the input of parseBrokenJson
    options,                  \* ParseSpec: options?.pair
    parsed,                   \* ParseSpec: what parseBrokenJson did and returned
    ajvOptions,               \* ValidatorSpec: the options of createSchemaValidator
    validator                 \* ValidatorSpec: what createSchemaValidator returned

agentVars == <<INSTRUMENTATION_ENABLED, isRunning, runs, topRejected, snapshots>>

schemaVars == <<schema, out, out2>>

parseVars == <<input, options, parsed>>

validatorVars == <<ajvOptions, validator>>

helperVars == <<schema, out, out2, input, options, parsed, ajvOptions, validator>>

vars == <<INSTRUMENTATION_ENABLED, isRunning, runs, topRejected, snapshots,
          schema, out, out2, input, options, parsed, ajvOptions, validator>>

(***************************************************************************)
(* Thrown values.  Every value has the same fields: kind (the class, or    *)
(* "NonError" for a thrown value that is no Error), text (e.message, or    *)
(* String(e) for a non-Error), cls (the class a wrapper names), cause (the *)
(* errors array of a FrameworkError) and by (the run that created it,      *)
(* which tells two error objects apart).                                   *)
(***************************************************************************)
None == [kind |-> "none", text |-> <<>>, cls |-> "", cause |-> <<>>, by |-> 0]

Ok == [kind |-> "ok", text |-> <<>>, cls |-> "", cause |-> <<>>, by |-> 0]

ThrownKinds == {"Error", "ValueError", "AgentError", "NonError"}

UserThrown(k, r) ==
    [kind |-> k, text |-> <<"boom">>, cls |-> "", cause |-> <<>>, by |-> r]

\* new AgentError("Agent is already running!")
AlreadyRunning(r) ==
    [kind |-> "AgentError", text |-> <<"Agent is already running!">>,
     cls |-> "", cause |-> <<>>, by |-> r]

\* e instanceof AgentError
IsAgentError(e) == e.kind = "AgentError"

\* new AgentError(`Error has occurred in ${this.constructor.name}: ${...}`, [e])
WrapError(a, r, e) ==
    [kind |-> "AgentError",
     text |-> <<"Error has occurred in ", ClassName(a), ": ">> \o e.text,
     cls |-> ClassName(a), cause |-> <<e>>, by |-> r]

CatchDropCause(a, r, e) ==
    IF IsAgentError(e) THEN e
    ELSE [WrapError(a, r, e) EXCEPT !.cause = <<>>]

CatchWrapAlways(a, r, e) == WrapError(a, r, e)

\* The catch block of the callback: an AgentError is rethrown as it is, anything
\* else is wrapped.
Catch(a, r, e) ==
    IF IsAgentError(e) THEN e ELSE WrapError(a, r, e)

(***************************************************************************)
(* The middleware pipeline of a run.                                       *)
(***************************************************************************)
\* A stage is <<name, n>>: the two stages run() chooses between, and the n-th
\* stage a caller registers itself.
Telemetry == <<"telemetry", 0>>

DoNothing == <<"doNothing", 0>>

CustomStage(n) == <<"custom", n>>

Core == <<"core", 0>>

DefaultMiddlewareNone(enabled) == IF enabled THEN <<Telemetry>> ELSE <<>>

\* INSTRUMENTATION_ENABLED ? createTelemetryMiddleware() : doNothing()
DefaultMiddleware(enabled) ==
    IF enabled THEN <<Telemetry>> ELSE <<DoNothing>>

\* The stages of a run in registration order: the one run() attached, then the
\* ones the caller registered on the returned Run.
Pipeline(run) == run.middleware \o run.extra

Reverse(s) == [i \in 1..Len(s) |-> s[Len(s) + 1 - i]]

EventsInReversed(stages) ==
    [i \in 1..Len(stages) |-> <<"before", Reverse(stages)[i]>>]
        \o <<(<<"core", Core>>)>>

\* Onion composition: each stage is entered in registration order, then the
\* innermost invocation runs ...
EventsIn(stages) ==
    [i \in 1..Len(stages) |-> <<"before", stages[i]>>] \o <<(<<"core", Core>>)>>

\* ... and the stages are left in reverse order.
EventsOut(stages) ==
    [i \in 1..Len(stages) |-> <<"after", Reverse(stages)[i]>>]

(***************************************************************************)
(* BaseAgent                                                               *)
(***************************************************************************)
RunIds == 1..Len(runs)

Callers == {TopLevel} \cup {r \in RunIds : runs[r].pc = "running"}

NewRun(a, caller) ==
    [agent |-> a, parent |-> caller, pc |-> "created",
     middleware |-> DefaultMiddleware(INSTRUMENTATION_ENABLED), extra |-> <<>>,
     aborted |-> FALSE, rejected |-> FALSE,
     thrown |-> None, result |-> None, cleared |-> 0, events |-> <<>>]

\* if (this.isRunning)
Reentrant(a) == isRunning[a]

RejectClearsFlag(caller, a) ==
    /\ IF caller = TopLevel
       THEN /\ topRejected' = topRejected \cup {a}
            /\ runs' = runs
       ELSE /\ runs' = [runs EXCEPT ![caller].rejected = TRUE]
            /\ topRejected' = topRejected
    /\ isRunning' = [isRunning EXCEPT ![a] = FALSE]
    /\ UNCHANGED <<INSTRUMENTATION_ENABLED, snapshots>>

\* throw new AgentError("Agent is already running!"): the call returns no Run.
\* The error reaches the calling _run, or the outside caller.
Reject(caller, a) ==
    /\ IF caller = TopLevel
       THEN /\ topRejected' = topRejected \cup {a}
            /\ runs' = runs
       ELSE /\ runs' = [runs EXCEPT ![caller].rejected = TRUE]
            /\ topRejected' = topRejected
    /\ UNCHANGED <<isRunning, INSTRUMENTATION_ENABLED, snapshots>>

\* RunContext.enter(this, {signal, params}, callback).middleware(...): a run
\* context and its Run are created and one stage is attached; the callback has
\* not run yet.
Enter(caller, a) ==
    /\ Len(runs) < MaxRuns
    /\ runs' = Append(runs, NewRun(a, caller))
    /\ UNCHANGED <<isRunning, topRejected, INSTRUMENTATION_ENABLED, snapshots>>

\* BaseAgent.run, called by the outside caller or from inside a running _run.
run(caller, a) ==
    /\ caller \in Callers
    /\ IF Reentrant(a) THEN Reject(caller, a) ELSE Enter(caller, a)

\* The caller registers one more stage on the Run it got back.
Use(r) ==
    /\ r \in RunIds
    /\ runs[r].pc = "created"
    /\ Len(runs[r].extra) < MaxExtra
    /\ runs' = [runs EXCEPT ![r].extra = Append(@, CustomStage(Len(@) + 1))]
    /\ UNCHANGED <<isRunning, topRejected, INSTRUMENTATION_ENABLED, snapshots>>

\* The Run that run() returned is executed once its pipeline is built, that is
\* after run() has returned it: pipeline.run wraps the work in the stages.
Executes(r) == runs[r].pc = "created"

\* The Run executes: the stages are entered, then the callback starts, sets
\* the flag and calls _run.
Start(r) ==
    /\ r \in RunIds
    /\ Executes(r)
    /\ runs' = [runs EXCEPT ![r].pc = "running",
                            ![r].events = EventsIn(Pipeline(runs[r]))]
    /\ isRunning' = [isRunning EXCEPT ![runs[r].agent] = TRUE]
    /\ UNCHANGED <<topRejected, INSTRUMENTATION_ENABLED, snapshots>>

\* The caller aborts the signal it passed in options.
Abort(r) ==
    /\ r \in RunIds
    /\ runs[r].pc \in {"created", "running"}
    /\ ~runs[r].aborted
    /\ runs' = [runs EXCEPT ![r].aborted = TRUE]
    /\ UNCHANGED <<isRunning, topRejected, INSTRUMENTATION_ENABLED, snapshots>>

\* What the _run of r can throw: a value of its own, the error of a nested run
\* it awaited, or the rejection of a nested run() call.
Throwable(r) ==
    {UserThrown(k, r) : k \in ThrownKinds}
        \cup {runs[c].result : c \in {c \in RunIds : /\ runs[c].parent = r
                                                     /\ runs[c].pc = "settled"
                                                     /\ runs[c].result # Ok}}
        \cup (IF runs[r].rejected THEN {AlreadyRunning(r)} ELSE {})

\* this._run(input, options, context) resolves.
RunReturns(r) ==
    /\ r \in RunIds
    /\ runs[r].pc = "running"
    /\ runs' = [runs EXCEPT ![r].pc = "returned", ![r].rejected = FALSE]
    /\ UNCHANGED <<isRunning, topRejected, INSTRUMENTATION_ENABLED, snapshots>>

\* this._run(input, options, context) rejects with e.
RunThrows(r, e) ==
    /\ r \in RunIds
    /\ runs[r].pc = "running"
    /\ e \in Throwable(r)
    /\ runs' = [runs EXCEPT ![r].pc = "threw", ![r].thrown = e,
                            ![r].rejected = FALSE]
    /\ UNCHANGED <<isRunning, topRejected, INSTRUMENTATION_ENABLED, snapshots>>

AwaitRunOrAbort(r) ==
    \/ runs[r].pc \in {"returned", "threw"}
    \/ runs[r].pc = "running" /\ runs[r].aborted

\* await this._run(...): the callback goes on once _run has settled.
AwaitRun(r) == runs[r].pc \in {"returned", "threw"}

FinallyOnSuccessOnly(a, outcome) ==
    IF outcome = Ok THEN [isRunning EXCEPT ![a] = FALSE] ELSE isRunning

\* finally { this.isRunning = false }
Finally(a, outcome) == [isRunning EXCEPT ![a] = FALSE]

\* The rest of the callback once _run has settled: return or catch, then
\* finally; the Run settles with the outcome and the stages are left.
Settle(r) ==
    /\ r \in RunIds
    /\ AwaitRun(r)
    /\ LET a == runs[r].agent
           outcome == IF runs[r].pc = "threw"
                      THEN Catch(a, r, runs[r].thrown)
                      ELSE Ok
       IN  /\ runs' = [runs EXCEPT
                         ![r].pc = "settled",
                         ![r].result = outcome,
                         ![r].cleared = @ + 1,
                         ![r].events =
                             IF outcome = Ok
                             THEN @ \o EventsOut(Pipeline(runs[r]))
                             ELSE @]
           /\ isRunning' = Finally(a, outcome)
    /\ UNCHANGED <<topRejected, INSTRUMENTATION_ENABLED, snapshots>>

\* The values loadSnapshot's parameter type admits.
SnapshotValues == [isRunning : BOOLEAN]

\* createSnapshot() { return { isRunning: false } }
SnapshotOf(a) == [isRunning |-> FALSE]

createSnapshot(a) ==
    /\ snapshots' = snapshots \cup {SnapshotOf(a)}
    /\ UNCHANGED <<isRunning, runs, topRejected, INSTRUMENTATION_ENABLED>>

\* loadSnapshot(snapshot) { Object.assign(this, snapshot) }
loadSnapshot(a, s) ==
    /\ isRunning' = [isRunning EXCEPT ![a] = s.isRunning]
    /\ UNCHANGED <<runs, topRejected, INSTRUMENTATION_ENABLED, snapshots>>

(***************************************************************************)
(* Schemas.  A value is a record [k, type, required, properties, other]:   *)
(*   k = "prim"       a value that is no object (true, a string, ...)      *)
(*   k = "raw"        a JSON-Schema object: type, required, properties and *)
(*                    the other keywords it carries                        *)
(*   k = "ZodString", "ZodObject" (properties holds its shape),            *)
(*       "ZodEffects" (properties holds the schema it refines)             *)
(* required is absent, falsy (null, false, 0, ""), a truthy value that is  *)
(* no array, or an array of keys; properties is absent or a list of        *)
(* <<key, value>> in insertion order; items is empty or holds the schema   *)
(* of an array's elements.                                                 *)
(***************************************************************************)
Absent == [tag |-> "absent", keys |-> <<>>]

Falsy == [tag |-> "falsy", keys |-> <<>>]

NonArray == [tag |-> "nonarray", keys |-> <<>>]

Array(keys) == [tag |-> "array", keys |-> keys]

NoProps == [present |-> FALSE, entries |-> <<>>]

Props(entries) == [present |-> TRUE, entries |-> entries]

Node(k, type, required, properties, other) ==
    [k |-> k, type |-> type, required |-> required, properties |-> properties,
     other |-> other, items |-> <<>>]

\* { type: "array", items: v }
ArrayOf(v) == [Node("raw", "array", Absent, NoProps, {}) EXCEPT !.items = <<v>>]

Prim == Node("prim", "none", Absent, NoProps, {})

ZodString == Node("ZodString", "none", Absent, NoProps, {})

ZodObject(shape) == Node("ZodObject", "none", Absent, Props(shape), {})

ZodEffects(inner) == Node("ZodEffects", "none", Absent, Props(<< <<"schema", inner>> >>), {})

\* No schema yet, and the ValueError that validateSchema throws.
NoSchema == Node("none", "none", Absent, NoProps, {})

ValueError == Node("ValueError", "none", Absent, NoProps, {})

\* The inputs: every tree of at most d levels of nesting over one property key
\* or under an array's items.
Types == {"none", "object", "string"}

RequiredInputs == {Absent, Falsy, NonArray, Array(<<>>), Array(<<"z">>)}

RECURSIVE ZodSchemas(_)
ZodSchemas(d) ==
    {ZodString, ZodObject(<<>>)}
        \cup (IF d = 0 THEN {}
              ELSE {ZodEffects(z) : z \in ZodSchemas(d - 1)}
                       \cup {ZodObject(<< <<"a", z>> >>) : z \in ZodSchemas(d - 1)})

RECURSIVE Schemas(_)

RECURSIVE PlainSchemas(_)
PlainSchemas(d) ==
    LET properties == {NoProps, Props(<<>>)}
                          \cup (IF d = 0 THEN {}
                                ELSE {Props(<< <<"a", v>> >>) : v \in Schemas(d - 1)})
    IN  {Prim} \cup ZodSchemas(d)
            \cup {Node("raw", ty, rq, ps, {}) :
                     ty \in Types, rq \in RequiredInputs, ps \in properties}

ArraySchemas(d) == IF d = 0 THEN {} ELSE {ArrayOf(v) : v \in Schemas(d - 1)}

Schemas(d) == PlainSchemas(d) \cup ArraySchemas(d)

\* The schemas directly below a node: its property values and its items.
Children(n) ==
    {n.properties.entries[i][2] : i \in 1..Len(n.properties.entries)}
        \cup {n.items[i] : i \in 1..Len(n.items)}

\* schema instanceof ZodEffects
IsZodEffects(s) == s.k = "ZodEffects"

\* '_def' in inputSchema && inputSchema._def?.typeName?.startsWith('Zod')
IsZod(s) == s.k \in {"ZodString", "ZodObject", "ZodEffects"}

\* typeof value === 'object' && value !== null
IsObject(v) == v.k # "prim"

\* Object.keys(properties || {})
Keys(properties) == [i \in 1..Len(properties.entries) |-> properties.entries[i][1]]

RECURSIVE parseDef(_)
\* zod-to-json-schema on one Zod node: an object lists all its keys as required
\* and omits an empty required; an effects node inside the tree is converted
\* as the schema it refines.
parseDef(z) ==
    CASE z.k = "ZodString" -> Node("raw", "string", Absent, NoProps, {})
      [] z.k = "ZodEffects" -> parseDef(z.properties.entries[1][2])
      [] z.k = "ZodObject" ->
            LET shape == z.properties.entries
            IN  Node("raw", "object",
                     IF shape = <<>> THEN Absent ELSE Array(Keys(z.properties)),
                     Props([i \in 1..Len(shape) |->
                               <<shape[i][1], parseDef(shape[i][2])>>]),
                     {"additionalProperties"})

\* zodToJsonSchema(inputSchema, {target: "jsonSchema7", ...})
zodToJsonSchema(z) == [parseDef(z) EXCEPT !.other = @ \cup {"$schema"}]

convertToJsonSchema(inputSchema) ==
    IF IsZod(inputSchema) THEN zodToJsonSchema(inputSchema) ELSE inputSchema

RequiredOfObjectLiteral(schemaObj) ==
    IF schemaObj.required.tag \in {"absent", "falsy"} THEN NonArray
    ELSE IF schemaObj.required.tag # "array" THEN Array(Keys(schemaObj.properties))
    ELSE schemaObj.required

\* The required of an object node: [] when it has none, the property keys when
\* it is no array, else what it was.
RequiredOf(schemaObj) ==
    IF schemaObj.required.tag \in {"absent", "falsy"} THEN Array(<<>>)
    ELSE IF schemaObj.required.tag # "array" THEN Array(Keys(schemaObj.properties))
    ELSE schemaObj.required

FixRequiredOfTypedOnly(schemaObj) ==
    IF schemaObj.type = "object"
    THEN [schemaObj EXCEPT !.required = RequiredOf(schemaObj)]
    ELSE schemaObj

\* if (schemaObj.type === "object" || schemaObj.properties) { ... }
FixRequired(schemaObj) ==
    IF schemaObj.type = "object" \/ schemaObj.properties.present
    THEN [schemaObj EXCEPT !.required = RequiredOf(schemaObj)]
    ELSE schemaObj

RECURSIVE toJsonSchema(_)
\* The value toJsonSchema returns, or ValueError when it throws.
toJsonSchema(s) ==
    IF IsZodEffects(s) THEN ValueError
    ELSE LET jsonSchema == convertToJsonSchema(s)
         IN  IF ~IsObject(jsonSchema) THEN jsonSchema
             ELSE LET schemaObj == FixRequired(jsonSchema)
                      entries == schemaObj.properties.entries
                      nested == [i \in 1..Len(entries) |->
                                    IF IsObject(entries[i][2])
                                    THEN toJsonSchema(entries[i][2])
                                    ELSE entries[i][2]]
                  IN  IF \E i \in 1..Len(entries) : nested[i] = ValueError
                      THEN ValueError
                      ELSE [schemaObj EXCEPT !.properties.entries =
                               [i \in 1..Len(entries) |-> <<entries[i][1], nested[i]>>]]

InputUntouched(s) == s

RECURSIVE InputAfter(_)
\* The caller's object after the call.  A raw schema is changed in place: its
\* required, then its properties in order up to the first one that throws; a
\* Zod schema is converted into a new object and stays as it was.
InputAfter(s) ==
    IF s.k # "raw" THEN s
    ELSE LET schemaObj == FixRequired(s)
             entries == schemaObj.properties.entries
             threw(i) == IsObject(entries[i][2]) /\ toJsonSchema(entries[i][2]) = ValueError
             reached(i) == \A j \in 1..(i - 1) : ~threw(j)
             after(i) ==
                 IF ~IsObject(entries[i][2]) \/ ~reached(i) THEN entries[i][2]
                 ELSE IF threw(i) THEN InputAfter(entries[i][2])
                 ELSE toJsonSchema(entries[i][2])
         IN  [schemaObj EXCEPT !.properties.entries =
                 [i \in 1..Len(entries) |-> <<entries[i][1], after(i)>>]]

\* toJsonSchema(schema): out is the value returned.
Normalize ==
    /\ schema # NoSchema
    /\ out = NoSchema
    /\ out' = toJsonSchema(schema)
    /\ schema' = InputAfter(schema)
    /\ UNCHANGED out2

\* toJsonSchema on the schema the first call returned, which for a raw schema
\* is the caller's object again.
NormalizeAgain ==
    /\ out \notin {NoSchema, ValueError}
    /\ out2 = NoSchema
    /\ out2' = toJsonSchema(out)
    /\ schema' = InputAfter(schema)
    /\ UNCHANGED out

(***************************************************************************)
(* Texts.  A text is a sequence of tokens: "{" and "}", "m" for one member *)
(* "a": 1, ",", "w" for a run of bare words, " " for white space, and "s"  *)
(* for bare words as a quoted string, which only a repair produces.  A     *)
(* value is the empty object, the object {a: 1}, the string of the bare    *)
(* words, or null.                                                         *)
(***************************************************************************)
Tokens == {"{", "}", "m", ",", "w", " "}

Texts(n) == UNION {[1..k -> Tokens] : k \in 0..n}

Undefined == [defined |-> FALSE, text |-> <<>>]

Text(t) == [defined |-> TRUE, text |-> t]

Inputs == {Undefined} \cup {Text(t) : t \in Texts(MaxLen)}

\* options?.pair: undefined, null, or [open, close]
NoPair == [given |-> "undefined", open |-> "", close |-> ""]

NullPair == [given |-> "null", open |-> "", close |-> ""]

Pair(open, close) == [given |-> "pair", open |-> open, close |-> close]

PairOptions == {NoPair, NullPair, Pair("{", "}"), Pair("", "")}

EmptyObject == "{}"

ObjectA1 == "{a: 1}"

BareWords == "'w'"

Null == "null"

SyntaxError == "SyntaxError"

RECURSIVE TrimStart(_)
TrimStart(t) == IF t # <<>> /\ Head(t) = " " THEN TrimStart(Tail(t)) ELSE t

RECURSIVE TrimEnd(_)
TrimEnd(t) ==
    IF t # <<>> /\ t[Len(t)] = " " THEN TrimEnd(SubSeq(t, 1, Len(t) - 1)) ELSE t

\* String.prototype.trim
Trim(t) == TrimEnd(TrimStart(t))

IsToken(c) == c # " "

\* The tokens of a text: white space between tokens carries no meaning.
Squeeze(t) == SelectSeq(t, IsToken)

\* m (, m)*
IsMembers(u) ==
    /\ Len(u) % 2 = 1
    /\ \A i \in 1..Len(u) : u[i] = IF i % 2 = 1 THEN "m" ELSE ","

\* JSON.parse(text): the value, or SyntaxError when it throws.
JSONparse(text) ==
    LET u == Squeeze(text)
        n == Len(u)
    IN  IF u = <<"s">> THEN BareWords
        ELSE IF n >= 2 /\ u[1] = "{" /\ u[n] = "}"
        THEN IF n = 2 THEN EmptyObject
             ELSE IF IsMembers(SubSeq(u, 2, n - 1)) THEN ObjectA1
             ELSE SyntaxError
        ELSE SyntaxError

\* What findFirstPair yields: a span, no span (null), or an error thrown.
NoSpan == [threw |-> FALSE, found |-> FALSE, outer |-> <<>>]

Span(outer) == [threw |-> FALSE, found |-> TRUE, outer |-> outer]

PairThrows == [threw |-> TRUE, found |-> FALSE, outer |-> <<>>]

Count(text, c, i, j) == Cardinality({k \in i..j : text[k] = c})

Min(S) == CHOOSE x \in S : \A y \in S : x <= y

\* findFirstPair(text, pair): the first balanced span bounded by the pair, from
\* the first opening delimiter to the delimiter that closes it; null when there
\* is none.  What it does with empty delimiters is left open.
findFirstPair(text, pair) ==
    IF pair.open = "" \/ pair.close = "" THEN {NoSpan, PairThrows}
    ELSE LET opens == {i \in 1..Len(text) : text[i] = pair.open}
         IN  IF opens = {} THEN {NoSpan}
             ELSE LET start == Min(opens)
                      ends == {j \in (start + 1)..Len(text) :
                                  Count(text, pair.open, start, j)
                                      = Count(text, pair.close, start, j)}
                  IN  IF ends = {} THEN {NoSpan}
                      ELSE {Span(SubSeq(text, start, Min(ends)))}

\* What jsonrepair yields: the repaired text, or an error thrown.
RepairThrows == [threw |-> TRUE, text |-> <<>>]

Repaired(text) == [threw |-> FALSE, text |-> text]

RepairedTexts == {<<"{", "}">>, <<"{", "m", "}">>, <<"s">>, <<"w">>}

\* jsonrepair(text).  Valid JSON comes back as it is; an empty text throws;
\* bare words become a quoted string; an object with a leading or trailing
\* comma or without its closing brace is completed.  Of any other text it is
\* only known that the call throws or returns some text.
jsonrepair(text) ==
    LET u == Squeeze(text)
        n == Len(u)
        rest == IF n >= 2 /\ u[n] = "}" THEN SubSeq(u, 2, n - 1) ELSE SubSeq(u, 2, n)
        core == IF rest # <<>> /\ rest[Len(rest)] = ","
                THEN SubSeq(rest, 1, Len(rest) - 1)
                ELSE rest
    IN  IF JSONparse(text) # SyntaxError THEN {Repaired(text)}
        ELSE IF n = 0 THEN {RepairThrows}
        ELSE IF \A i \in 1..n : u[i] = "w" THEN {Repaired(<<"s">>)}
        ELSE IF u[1] = "{" /\ (core = <<>> \/ IsMembers(core))
        THEN {Repaired(<<"{">> \o core \o <<"}">>)}
        ELSE {RepairThrows} \cup {Repaired(t) : t \in RepairedTexts}

\* What one call of parseBrokenJson did: whether an error left it, the value
\* returned, whether the strict parse succeeded, and the text the repair ran
\* on and the text it produced, if it ran.
NoText == [some |-> FALSE, text |-> <<>>]

Some(text) == [some |-> TRUE, text |-> text]

NotParsed ==
    [done |-> FALSE, raised |-> FALSE, value |-> Null, strict |-> FALSE,
     repairedOn |-> NoText, repaired |-> NoText]

Outcome(raised, value, strict, repairedOn, repaired) ==
    [done |-> TRUE, raised |-> raised, value |-> value, strict |-> strict,
     repairedOn |-> repairedOn, repaired |-> repaired]

\* JSON.parse(jsonrepair(text))
RepairAndParse(text) ==
    {IF r.threw THEN Outcome(TRUE, Null, FALSE, Some(text), NoText)
     ELSE IF JSONparse(r.text) = SyntaxError
     THEN Outcome(TRUE, Null, FALSE, Some(text), Some(r.text))
     ELSE Outcome(FALSE, JSONparse(r.text), FALSE, Some(text), Some(r.text)) :
        r \in jsonrepair(text)}

OuterOrNothing(found, text) == IF found.found THEN found.outer ELSE <<>>

\* const { outer } = findFirstPair(input, pair) ?? { outer: input }
OuterOr(found, text) == IF found.found THEN found.outer ELSE text

\* The catch block of the inner try: if (pair) { ... } else { ... }
Recover(text, pair) ==
    IF pair.given = "pair"
    THEN UNION {IF f.threw THEN {Outcome(TRUE, Null, FALSE, NoText, NoText)}
                ELSE RepairAndParse(OuterOr(f, text)) :
                   f \in findFirstPair(text, pair)}
    ELSE RepairAndParse(text)

OuterRethrows(r) == r

\* The outer try: catch { return null }
OuterCatch(r) == IF r.raised THEN [r EXCEPT !.raised = FALSE, !.value = Null] ELSE r

\* input = (input ?? "")?.trim()
Trimmed(in) == Trim(IF in.defined THEN in.text ELSE <<>>)

\* parseBrokenJson(input, options): the outcomes the call can have.
parseBrokenJson(in, opts) ==
    LET text == Trimmed(in)
        strict == JSONparse(text)
    IN  IF strict # SyntaxError
        THEN {Outcome(FALSE, strict, TRUE, NoText, NoText)}
        ELSE {OuterCatch(r) : r \in Recover(text, opts)}

Parse ==
    /\ ~parsed.done
    /\ \E r \in parseBrokenJson(input, options) : parsed' = r
    /\ UNCHANGED <<input, options>>

(***************************************************************************)
(* createSchemaValidator.  Two keywords stand for schemas that no value    *)
(* meets: "anyOf:otherType" for a subschema whose type contradicts the     *)
(* type of its parent, which Ajv's strictTypes check refuses to compile,   *)
(* and "minimum>maximum" for bounds that exclude every number, which Ajv   *)
(* compiles.                                                               *)
(***************************************************************************)
Unsatisfiable == {"anyOf:otherType", "minimum>maximum"}

\* The caller's options: none, or strictTypes set to false or to "log".
NoOptions == [strictTypes |-> "unset"]

AjvOptions == {NoOptions, [strictTypes |-> "false"], [strictTypes |-> "log"]}

\* new Ajv({ ..., strictTypes: true, ..., ...options })
StrictTypes(opts) == IF opts.strictTypes = "unset" THEN "true" ELSE opts.strictTypes

ValidatorSchemas ==
    ZodSchemas(MaxDepth)
        \cup {Node("raw", "object", rq, ps, d) :
                 rq \in {Absent, Array(<<>>)},
                 ps \in {NoProps, Props(<<>>),
                         Props(<< <<"a", Node("raw", "string", Absent, NoProps, {})>> >>)},
                 d \in SUBSET Unsatisfiable}

RECURSIVE HasKeyword(_, _)
HasKeyword(s, keyword) ==
    \/ keyword \in s.other
    \/ \E c \in Children(s) : HasKeyword(c, keyword)

\* ajv.compile throws: in strict mode a type that its context does not allow
\* is an error, logged under "log" and ignored under false.
AjvRejects(jsonSchema, opts) ==
    StrictTypes(opts) = "true" /\ HasKeyword(jsonSchema, "anyOf:otherType")

NoValidator == [status |-> "none", error |-> "", compiled |-> FALSE, verdict |-> "none"]

Threw(kind) == [status |-> "threw", error |-> kind, compiled |-> FALSE, verdict |-> "none"]

Returned(compiled) ==
    [status |-> "returned", error |-> "", compiled |-> compiled, verdict |-> "none"]

CompileOnFirstCall(jsonSchema, opts) == Returned(FALSE)

\* try { return ajv.compile(jsonSchema) } catch (error) { throw error }
Compile(jsonSchema, opts) ==
    IF AjvRejects(jsonSchema, opts) THEN Threw("Error") ELSE Returned(TRUE)

\* createSchemaValidator(schema, options): toJsonSchema, whose ValueError
\* leaves the call, then new Ajv and compile.
createSchemaValidator ==
    /\ schema # NoSchema
    /\ validator = NoValidator
    /\ out' = toJsonSchema(schema)
    /\ schema' = InputAfter(schema)
    /\ validator' = IF out' = ValueError THEN Threw("ValueError")
                    ELSE Compile(out', ajvOptions)
    /\ UNCHANGED <<out2, ajvOptions>>

\* A call of the validator that was returned: it runs the code compile
\* generated; one not compiled yet would be compiled by its first call.
Validate(data) ==
    /\ validator.status = "returned"
    /\ validator.verdict = "none"
    /\ validator' =
           [validator EXCEPT !.verdict =
               IF ~validator.compiled /\ AjvRejects(out, ajvOptions) THEN "threw"
               ELSE IF \E k \in Unsatisfiable : HasKeyword(out, k) THEN "invalid"
               ELSE data]
    /\ UNCHANGED <<schema, out, out2, ajvOptions>>

AgentInit ==
    /\ INSTRUMENTATION_ENABLED \in BOOLEAN
    /\ isRunning = [a \in Agents |-> FALSE]
    /\ runs = <<>>
    /\ topRejected = {}
    /\ snapshots = {}

ParseIdle ==
    /\ input = Undefined
    /\ options = NoPair
    /\ parsed = NotParsed

ValidatorIdle ==
    /\ ajvOptions = NoOptions
    /\ validator = NoValidator

Init ==
    /\ AgentInit
    /\ schema = NoSchema
    /\ out = NoSchema
    /\ out2 = NoSchema
    /\ ParseIdle
    /\ ValidatorIdle

SchemaInit ==
    /\ INSTRUMENTATION_ENABLED = FALSE
    /\ isRunning = [a \in Agents |-> FALSE]
    /\ runs = <<>>
    /\ topRejected = {}
    /\ snapshots = {}
    /\ (schema \in PlainSchemas(MaxDepth) \/ schema \in ArraySchemas(MaxDepth))
    /\ out = NoSchema
    /\ out2 = NoSchema
    /\ ParseIdle
    /\ ValidatorIdle

SchemaNext ==
    \/ Normalize /\ UNCHANGED <<agentVars, parseVars, validatorVars>>
    \/ NormalizeAgain /\ UNCHANGED <<agentVars, parseVars, validatorVars>>

SchemaSpec == SchemaInit /\ [][SchemaNext]_vars

ParseInit ==
    /\ INSTRUMENTATION_ENABLED = FALSE
    /\ isRunning = [a \in Agents |-> FALSE]
    /\ runs = <<>>
    /\ topRejected = {}
    /\ snapshots = {}
    /\ schema = NoSchema
    /\ out = NoSchema
    /\ out2 = NoSchema
    /\ input \in Inputs
    /\ options \in PairOptions
    /\ parsed = NotParsed
    /\ ValidatorIdle

ParseNext ==
    \/ Parse /\ UNCHANGED <<agentVars, schemaVars, validatorVars>>

ParseSpec == ParseInit /\ [][ParseNext]_vars

ValidatorInit ==
    /\ INSTRUMENTATION_ENABLED = FALSE
    /\ isRunning = [a \in Agents |-> FALSE]
    /\ runs = <<>>
    /\ topRejected = {}
    /\ snapshots = {}
    /\ schema \in ValidatorSchemas
    /\ out = NoSchema
    /\ out2 = NoSchema
    /\ ParseIdle
    /\ ajvOptions \in AjvOptions
    /\ validator = NoValidator

ValidatorNext ==
    \/ createSchemaValidator /\ UNCHANGED <<agentVars, parseVars>>
    \/ \E data \in {"valid", "invalid"} : Validate(data) /\ UNCHANGED <<agentVars, parseVars>>

ValidatorSpec == ValidatorInit /\ [][ValidatorNext]_vars

\* The agents: top-level and nested runs, every kind of thrown value.
Next ==
    \/ \E a \in Agents : \E caller \in Callers : run(caller, a) /\ UNCHANGED helperVars
    \/ \E r \in RunIds : Start(r) /\ UNCHANGED helperVars
    \/ \E r \in RunIds : RunReturns(r) /\ UNCHANGED helperVars
    \/ \E r \in RunIds : \E e \in Throwable(r) : RunThrows(r, e) /\ UNCHANGED helperVars
    \/ \E r \in RunIds : Settle(r) /\ UNCHANGED helperVars

Spec == Init /\ [][Next]_vars

\* Top-level runs whose signal the caller may abort.
AbortNext ==
    \/ \E a \in Agents : run(TopLevel, a) /\ UNCHANGED helperVars
    \/ \E r \in RunIds : Start(r) /\ UNCHANGED helperVars
    \/ \E r \in RunIds : Abort(r) /\ UNCHANGED helperVars
    \/ \E r \in RunIds : RunReturns(r) /\ UNCHANGED helperVars
    \/ \E r \in RunIds : RunThrows(r, UserThrown("Error", r)) /\ UNCHANGED helperVars
    \/ \E r \in RunIds : Settle(r) /\ UNCHANGED helperVars

AbortSpec == Init /\ [][AbortNext]_vars

\* Top-level runs interleaved with createSnapshot() and loadSnapshot().
SnapshotNext ==
    \/ \E a \in Agents : run(TopLevel, a) /\ UNCHANGED helperVars
    \/ \E r \in RunIds : Start(r) /\ UNCHANGED helperVars
    \/ \E r \in RunIds : RunReturns(r) /\ UNCHANGED helperVars
    \/ \E r \in RunIds : RunThrows(r, UserThrown("Error", r)) /\ UNCHANGED helperVars
    \/ \E r \in RunIds : Settle(r) /\ UNCHANGED helperVars
    \/ \E a \in Agents : createSnapshot(a) /\ UNCHANGED helperVars
    \/ \E a \in Agents : \E s \in SnapshotValues : loadSnapshot(a, s) /\ UNCHANGED helperVars

SnapshotSpec == Init /\ [][SnapshotNext]_vars

\* Top-level runs on whose Run the caller registers further stages.
PipelineNext ==
    \/ \E a \in Agents : run(TopLevel, a) /\ UNCHANGED helperVars
    \/ \E r \in RunIds : Use(r) /\ UNCHANGED helperVars
    \/ \E r \in RunIds : Start(r) /\ UNCHANGED helperVars
    \/ \E r \in RunIds : RunReturns(r) /\ UNCHANGED helperVars
    \/ \E r \in RunIds : RunThrows(r, UserThrown("Error", r)) /\ UNCHANGED helperVars
    \/ \E r \in RunIds : Settle(r) /\ UNCHANGED helperVars

PipelineSpec == Init /\ [][PipelineNext]_vars

(***************************************************************************)
(* Claims about BaseAgent                                                  *)
(***************************************************************************)
Unsettled(r) == runs[r].pc # "settled"

InProgress(r) == runs[r].pc = "running"

SettlesIn(r) == runs[r].pc # "settled" /\ runs'[r].pc = "settled"

\* C1: a run() call issued between an earlier run() on the same agent and
\* that run's settlement is rejected: no run is ever accepted while an earlier
\* run of the same agent is unsettled, so of two accepted runs of one agent the
\* earlier one has settled.
C1_SecondRunRejected ==
    \A r1, r2 \in RunIds :
        (r1 < r2 /\ runs[r1].agent = runs[r2].agent) => ~Unsettled(r1)

\* C2: mutual exclusion: at most one _run of an agent is in progress (started
\* and not yet settled) at any time.
C2_MutualExclusion ==
    \A a \in Agents :
        Cardinality({r \in RunIds : runs[r].agent = a /\ InProgress(r)}) <= 1

\* C3: when a run settles (by success, by failure of _run, also of an aborted
\* run), the agent's flag is false in the state in which the caller can observe
\* the outcome, that run has cleared the flag exactly once, and the reentrancy
\* check of a following run() passes.
C3_FlagClearedOnSettle ==
    [][\A r \in RunIds :
          SettlesIn(r) =>
              /\ isRunning'[runs[r].agent] = FALSE
              /\ runs[r].cleared = 0 /\ runs'[r].cleared = 1
              /\ (~Reentrant(runs[r].agent))']_vars

C3_Witness ==
    \E r \in RunIds :
        /\ runs[r].pc = "settled"
        /\ runs[r].aborted
        /\ runs[r].result.kind = "AgentError"
        /\ runs[r].cleared = 1
        /\ ~isRunning[runs[r].agent]

\* C4: a value thrown by _run that is no AgentError surfaces from run() as one
\* AgentError whose cause is the thrown value and whose message names the
\* agent's class; an AgentError thrown by _run surfaces as the same object.
C4_ErrorWrapping ==
    \A r \in RunIds :
        (runs[r].pc = "settled" /\ runs[r].thrown # None) =>
            IF runs[r].thrown.kind = "AgentError"
            THEN runs[r].result = runs[r].thrown
            ELSE /\ runs[r].result.kind = "AgentError"
                 /\ runs[r].result.cause = <<runs[r].thrown>>
                 /\ \E i \in 1..Len(runs[r].result.text) :
                        runs[r].result.text[i] = ClassName(runs[r].agent)
                 /\ runs[r].result # runs[r].thrown

C4_Witness ==
    /\ \E r \in RunIds :
          /\ runs[r].pc = "settled"
          /\ runs[r].thrown.kind = "NonError"
          /\ runs[r].result.cause = <<runs[r].thrown>>
    /\ \E r \in RunIds :
          /\ runs[r].pc = "settled"
          /\ runs[r].thrown.kind = "AgentError"
          /\ runs[r].result = runs[r].thrown

RECURSIVE WrapDepth(_)
\* The number of AgentError wrappers around the value that was first thrown.
WrapDepth(e) == IF e.cause = <<>> THEN 0 ELSE 1 + WrapDepth(e.cause[1])

\* The error of a nested run that the _run of r awaited and let through.
FromNested(r) ==
    \E c \in RunIds :
        /\ runs[c].parent = r
        /\ runs[c].pc = "settled"
        /\ runs[c].result = runs[r].thrown

\* The classes of the core's taxonomy that a _run can throw: the reentrancy
\* rejection is an AgentError, ValueError is what validateSchema throws.
Taxonomy == {"AgentError", "ValueError"}

\* C5 as stated: an error is wrapped at most once however deep the nesting,
\* every outer boundary rethrows it unchanged, and an error whose class is in
\* the core's taxonomy is not wrapped at all.
C5_TaxonomyNeverWrapped ==
    \A r \in RunIds :
        (runs[r].pc = "settled" /\ runs[r].thrown # None) =>
            /\ WrapDepth(runs[r].result) <= 1
            /\ FromNested(r) => runs[r].result = runs[r].thrown
            /\ runs[r].thrown.kind \in Taxonomy => runs[r].result = runs[r].thrown

\* C5 amended: an error is wrapped at most once, at the innermost boundary,
\* and every outer boundary rethrows it unchanged; an AgentError (the
\* reentrancy rejection included) is not wrapped at all, and a ValueError
\* thrown inside _run is wrapped once like any other value.
C5_WrapOnce ==
    \A r \in RunIds :
        (runs[r].pc = "settled" /\ runs[r].thrown # None) =>
            /\ WrapDepth(runs[r].result) <= 1
            /\ FromNested(r) => runs[r].result = runs[r].thrown
            /\ runs[r].thrown.kind = "AgentError" => runs[r].result = runs[r].thrown
            /\ runs[r].thrown.kind = "ValueError" =>
                   /\ WrapDepth(runs[r].result) = 1
                   /\ runs[r].result.cause = <<runs[r].thrown>>

C5_Witness ==
    \E r, c \in RunIds :
        /\ runs[c].parent = r
        /\ runs[c].pc = "settled" /\ runs[r].pc = "settled"
        /\ runs[c].thrown.kind = "ValueError"
        /\ WrapDepth(runs[c].result) = 1
        /\ runs[r].thrown = runs[c].result
        /\ runs[r].result = runs[c].result

\* C6: cancellation is advisory.  Aborting the signal of a run changes neither
\* the flag nor the progress of any run; a run leaves its _run only because
\* _run itself returned or threw; and a run clears the flag only once its own
\* _run has settled.
C6_AbortAdvisory ==
    [][\A r \in RunIds :
          /\ (~runs[r].aborted /\ runs'[r].aborted) =>
                 /\ isRunning' = isRunning
                 /\ \A q \in RunIds : runs'[q].pc = runs[q].pc
          /\ (InProgress(r) /\ ~InProgress(r)') =>
                 runs'[r].pc \in {"returned", "threw"}
          /\ runs'[r].cleared > runs[r].cleared =>
                 runs[r].pc \in {"returned", "threw"}]_vars

C6_Witness ==
    \E r \in RunIds :
        /\ runs[r].aborted
        /\ runs[r].pc = "settled"
        /\ runs[r].result = Ok

\* C7: createSnapshot() returns isRunning = false in every state, and after
\* loadSnapshot(s) the agent's flag is false, whatever the snapshot value s.
C7_FalseAfterLoad ==
    [][\A a \in Agents : \A s \in SnapshotValues :
          /\ SnapshotOf(a).isRunning = FALSE
          /\ loadSnapshot(a, s) => isRunning'[a] = FALSE]_vars

\* C8: every accepted run() has attached exactly one stage, the telemetry
\* middleware when instrumentation is enabled and the no-op stage otherwise, so
\* the pipeline is never empty; under the no-op stage the invocation still
\* runs and its outcome is the callback's.
C8_OneDefaultStage ==
    \A r \in RunIds :
        /\ Len(runs[r].middleware) = 1
        /\ runs[r].middleware[1] =
               (IF INSTRUMENTATION_ENABLED THEN Telemetry ELSE DoNothing)
        /\ Len(Pipeline(runs[r])) >= 1
        /\ (runs[r].middleware = <<DoNothing>> /\ runs[r].pc # "created") =>
               \E i \in 1..Len(runs[r].events) : runs[r].events[i] = <<"core", Core>>

C8_Witness ==
    \E r \in RunIds :
        /\ ~INSTRUMENTATION_ENABLED
        /\ runs[r].middleware = <<DoNothing>>
        /\ runs[r].pc = "settled"
        /\ runs[r].result = Ok

\* The place of an event in the trace of a run, 0 when it is not there.
Position(ev, events) ==
    IF \E i \in 1..Len(events) : events[i] = ev
    THEN CHOOSE i \in 1..Len(events) : events[i] = ev
    ELSE 0

\* C9: the stages nest in registration order: in the trace of a successful
\* run every stage is entered once and left once, a stage registered earlier is
\* entered before and left after one registered later, and the core invocation
\* lies between the last entry and the first exit; for stages [A, B] the trace
\* is A-before, B-before, core, B-after, A-after.
C9_StagesNest ==
    \A r \in RunIds :
        (runs[r].pc = "settled" /\ runs[r].result = Ok) =>
            LET p == Pipeline(runs[r])
                ev == runs[r].events
                before(i) == Position(<<"before", p[i]>>, ev)
                after(i) == Position(<<"after", p[i]>>, ev)
                core == Position(<<"core", Core>>, ev)
            IN  /\ Len(ev) = 2 * Len(p) + 1
                /\ \A i \in 1..Len(p) :
                       /\ 0 < before(i) /\ before(i) < core /\ core < after(i)
                       /\ \A j \in 1..Len(p) :
                              i < j => (before(i) < before(j) /\ after(j) < after(i))
                /\ Len(p) = 2 =>
                       ev = << <<"before", p[1]>>, <<"before", p[2]>>,
                               <<"core", Core>>,
                               <<"after", p[2]>>, <<"after", p[1]>> >>

C9_Witness ==
    \E r \in RunIds :
        /\ runs[r].pc = "settled" /\ runs[r].result = Ok
        /\ Len(Pipeline(runs[r])) = 2
        /\ runs[r].events[1] = <<"before", runs[r].middleware[1]>>
        /\ runs[r].events[5] = <<"after", runs[r].middleware[1]>>

\* A run() call is rejected in this step: the outside caller or a running
\* _run receives the reentrancy error.
Rejecting ==
    \/ topRejected' # topRejected
    \/ \E r \in RunIds : ~runs[r].rejected /\ runs'[r].rejected

\* C17: a run() call rejected for reentrancy has no effect: it creates no run
\* context, invokes no _run, attaches no middleware, emits no event and
\* leaves isRunning as it was, which is true for the agent called; the same
\* holds when the call is made from inside a running _run.
C17_RejectionNoEffect ==
    [][Rejecting
           => /\ isRunning' = isRunning
              /\ \A a \in topRejected' \ topRejected : isRunning'[a]
              /\ \E a \in Agents : isRunning'[a]
              /\ Len(runs') = Len(runs)
              /\ \A r \in RunIds :
                     [runs'[r] EXCEPT !.rejected = runs[r].rejected] = runs[r]]_vars

\* An outside call was rejected and so was a call made by a _run that is
\* still in progress; the flag of the agent called is true.
C17_Witness ==
    /\ \E a \in topRejected : isRunning[a]
    /\ \E r \in RunIds : runs[r].rejected /\ InProgress(r) /\ isRunning[runs[r].agent]

\* The callback of run r is between its first statement and its finally.
Executing(r) == runs[r].pc \in {"running", "returned", "threw"}

\* C18: flag accuracy: in every reachable state, under any interleaving of
\* run(), settlement and loadSnapshot(), isRunning of an agent is true exactly
\* while a _run of that agent is in progress: never false while one is
\* executing, never true when none is.
C18_FlagAccuracy ==
    \A a \in Agents :
        isRunning[a] <=> \E r \in RunIds : runs[r].agent = a /\ Executing(r)

(***************************************************************************)
(* Claims about toJsonSchema                                               *)
(***************************************************************************)
\* C10: normalization is idempotent: for every schema that toJsonSchema
\* accepts, normalizing its result again yields the same tree, node for node.
C10_Idempotent ==
    out2 # NoSchema => out2 = out

C10_Witness ==
    /\ out2 # NoSchema
    /\ out2 = out
    /\ out.required.tag = "array"
    /\ out.properties.entries # <<>>
    /\ out.properties.entries[1][2].k = "raw"
    /\ out.properties.entries[1][2].required = Array(<<>>)
    /\ out.properties.entries[1][2].properties.entries # <<>>

RECURSIVE ObjectNodesHaveRequired(_)
ObjectNodesHaveRequired(n) ==
    /\ n.type = "object" => n.required.tag = "array"
    /\ \A c \in Children(n) : ObjectNodesHaveRequired(c)

\* C11: in the schema toJsonSchema returns, every node of type object, at
\* every depth and in every position (under properties and also under an
\* array's items), has a required that is an array.
C11_EveryObjectNodeHasRequired ==
    out \notin {NoSchema, ValueError} => ObjectNodesHaveRequired(out)

RECURSIVE ContainsEffects(_)
\* An effects step at the root of s or below it, through properties.
ContainsEffects(s) ==
    \/ IsZodEffects(s)
    \/ \E i \in 1..Len(s.properties.entries) : ContainsEffects(s.properties.entries[i][2])

\* C12: toJsonSchema throws ValueError for every input that contains an
\* effects step, at the root or nested inside an object's property, and for no
\* input free of effects; it never returns a schema for an input with effects.
C12_EffectsRejected ==
    [][(out = NoSchema /\ out' # NoSchema)
           => (out' = ValueError <=> ContainsEffects(schema))]_vars

\* A call of toJsonSchema returns or throws.
Normalized == out = NoSchema /\ out' # NoSchema

\* The required rule between a node as it was passed and as it is returned.
RequiredRule(before, after) ==
    IF before.type = "object" \/ before.properties.present
    THEN /\ before.required.tag \in {"absent", "falsy"} => after.required = Array(<<>>)
         /\ before.required.tag = "nonarray"
                => after.required = Array(Keys(before.properties))
         /\ before.required.tag = "array" => after.required = before.required
    ELSE after.required = before.required

\* C19: on a node with type "object" or with properties, toJsonSchema makes an
\* absent or falsy required the empty array, replaces a required that is no
\* array by the list of all declared property keys, and keeps an array as it
\* is, even one naming undeclared keys; a node with neither never gains a
\* required.  Stated of the root and of every raw schema under properties.
C19_RequiredRule ==
    [][(Normalized /\ schema.k = "raw" /\ out' # ValueError)
           => /\ RequiredRule(schema, out')
              /\ \A i \in 1..Len(schema.properties.entries) :
                     LET before == schema.properties.entries[i][2]
                     IN  before.k = "raw"
                             => RequiredRule(before, out'.properties.entries[i][2])]_vars

\* A raw root that had a required that was no array, over a property whose
\* array names an undeclared key, over a node with neither type nor properties.
C19_Witness ==
    /\ out.k = "raw" /\ "$schema" \notin out.other
    /\ out.type = "none"
    /\ out.required = Array(<<"a">>)
    /\ out.properties.entries[1][2].k = "raw"
    /\ out.properties.entries[1][2].required = Array(<<"z">>)
    /\ out.properties.entries[1][2].properties.entries # <<>>
    /\ out.properties.entries[1][2].properties.entries[1][2].k = "raw"
    /\ out.properties.entries[1][2].properties.entries[1][2].required = Absent

RECURSIVE IsRaw(_)
\* A JSON-Schema object with no Zod schema in it.
IsRaw(s) ==
    /\ s.k \in {"raw", "prim"}
    /\ \A c \in Children(s) : IsRaw(c)

RECURSIVE Frame(_, _)
\* after is before but for the required of nodes reached through properties.
Frame(before, after) ==
    /\ after.k = before.k /\ after.type = before.type
    /\ after.other = before.other /\ after.items = before.items
    /\ after.properties.present = before.properties.present
    /\ Keys(after.properties) = Keys(before.properties)
    /\ before.required.tag = "array" => after.required = before.required
    /\ \A i \in 1..Len(before.properties.entries) :
           Frame(before.properties.entries[i][2], after.properties.entries[i][2])

\* C20: for a raw JSON-Schema object, toJsonSchema returns the object it was
\* given, changed in place: the caller's object is afterwards what was
\* returned, with the required arrays injected, and nothing else is changed:
\* types, property names, existing required arrays and other keywords.
C20_InPlace ==
    [][(Normalized /\ IsRaw(schema) /\ schema.k = "raw")
           => /\ out' = schema'
              /\ Frame(schema, schema')
              /\ RequiredRule(schema, schema')]_vars

\* The caller's object is what was returned and carries injected arrays at
\* the root (from a required that was no array) and below it.
C20_Witness ==
    /\ out.k = "raw" /\ IsRaw(out) /\ out = schema
    /\ out.type = "object" /\ out.other = {}
    /\ out.required = Array(<<"a">>)
    /\ out.properties.entries[1][2].type = "array"
    /\ out.properties.entries[1][2].items # <<>>

Values == {EmptyObject, ObjectA1, BareWords, Null}

\* C14: parseBrokenJson never raises: for every input (a text, the empty
\* text, undefined) and every pair option (none, null, any pair), whichever
\* of strict parsing, pair extraction, repair and re-parsing fails, the call
\* returns a value or null; an undefined input yields null.
C14_NeverRaises ==
    parsed.done
        => /\ ~parsed.raised
           /\ parsed.value \in Values
           /\ ~input.defined => parsed.value = Null

\* An undefined input: the strict parse failed, the repair ran on the empty
\* text and threw, and null was returned.
C14_Witness ==
    /\ parsed.done /\ ~input.defined
    /\ ~parsed.strict
    /\ parsed.repairedOn = Some(<<>>) /\ ~parsed.repaired.some
    /\ parsed.value = Null

\* C15: the recovery steps come in a fixed order: (1) when the trimmed text
\* parses strictly, that value is returned and neither extraction nor repair
\* is applied; (2) otherwise, with a pair, the repair runs on the first
\* balanced span bounded by the pair, and on the whole trimmed text when
\* there is no such span (an opening delimiter without its close included);
\* (3) with no pair the repair runs on the whole trimmed text; the result is
\* the parse of the repaired text.
C15_FixedOrder ==
    parsed.done
        => LET text == Trimmed(input)
               strict == JSONparse(text)
           IN  /\ strict # SyntaxError
                      => /\ parsed.value = strict /\ parsed.strict
                         /\ parsed.repairedOn = NoText /\ parsed.repaired = NoText
               /\ (strict = SyntaxError /\ options.given = "pair"
                       /\ options.open # "" /\ options.close # "")
                      => \E f \in findFirstPair(text, options) :
                             parsed.repairedOn
                                 = Some(IF f.found THEN f.outer ELSE text)
               /\ (strict = SyntaxError /\ options.given # "pair")
                      => parsed.repairedOn = Some(text)
               /\ parsed.repaired.some
                      => parsed.value
                             = IF JSONparse(parsed.repaired.text) = SyntaxError
                               THEN Null
                               ELSE JSONparse(parsed.repaired.text)

\* A pair is given and the text, trimmed of its white space, opens a brace
\* that nothing closes: the repair ran on the whole trimmed text and the
\* object was returned.
C15_Witness ==
    /\ parsed.done /\ options = Pair("{", "}")
    /\ input.defined /\ Trimmed(input) # input.text
    /\ Trimmed(input) # <<>> /\ Trimmed(input)[1] = "{"
    /\ findFirstPair(Trimmed(input), options) = {NoSpan}
    /\ parsed.repairedOn = Some(Trimmed(input))
    /\ parsed.value = ObjectA1

\* C16: parseBrokenJson returns null for a text with no JSON value in it when
\* no pair is given ("not json at all"), the object for an object literal
\* with a trailing comma, and, with the pair of braces, the object that
\* stands between a prefix and a suffix of other text.
C16_Examples ==
    parsed.done
        => /\ (input = Text(<<"w">>) /\ options = NoPair) => parsed.value = Null
           /\ input = Text(<<"{", "m", ",", "}">>) => parsed.value = ObjectA1
           /\ (input = Text(<<"w", "{", "m", "}", "w">>) /\ options = Pair("{", "}"))
                  => parsed.value = ObjectA1

====
